---- MODULE Spec2Model ----
(***************************************************************************)
(* A model of streamparse/storm/bolt.py: the Bolt run loop (_run, run,     *)
(* _handle_run_exception), the emit/ack/fail operations, and the           *)
(* BatchingBolt layer (process, process_tick, _handle_run_exception).      *)
(*                                                                         *)
(* Spec      the main loop of one bolt: handshake, then one inbound        *)
(*           message per step, dispatched as _run dispatches it.           *)
(* SpecEmit  threads calling emit concurrently, with the two locks of emit  *)
(*           and an orchestrator answering the emit envelopes.             *)
(* SpecMany  SpecEmit, the threads calling emit_many as well.              *)
(* SpecEmitFair  SpecEmit under fair scheduling of the threads.            *)
(***************************************************************************)
EXTENDS Integers, Sequences, FiniteSets, TLC

\* ------------------------------------------------------------------ bounds
\* Data items read by the main loop in one run (their ids are 1..MaxItems).
MaxItems == 3
\* Tick messages read by the main loop in one run.
MaxTicks == 3
\* Largest ticks_between_batches a run is configured with.
MaxThreshold == 2
\* Threads calling emit / emit_many concurrently.
NumThreads == 2
\* emit / emit_many calls made in one run of SpecEmit.
MaxCalls == 2
\* Tuples handed to one emit_many call.
MaxTuples == 2

\* ------------------------------------------------------- values and tuples
\* Python's None, for an argument or a group key.
None == "None"

\* The group keys group_key may return; None is the default single group.
Keys == {None, "a", "b"}

ItemIds == 1..MaxItems
TickId == MaxItems + 1
HeartbeatId == MaxItems + 2

\* A component.Tuple as _run reads it: id, component, stream, task.
DataTuple(i) == [id |-> i, component |-> "spout", stream |-> "default", task |-> 1]
TickTuple == [id |-> TickId, component |-> "__system", stream |-> "__tick", task |-> 0 - 1]
HeartbeatTuple == [id |-> HeartbeatId, component |-> "__system", stream |-> "__heartbeat", task |-> 0 - 1]

ClassifyNoHeartbeat(tup) ==
    IF tup.component = "__system" /\ tup.stream = "__tick" THEN "tick" ELSE "data"

\* The classification of an inbound message by _run.
Classify(tup) ==
    IF tup.task = 0 - 1 /\ tup.stream = "__heartbeat" THEN "heartbeat"
    ELSE IF tup.component = "__system" /\ tup.stream = "__tick" THEN "tick"
    ELSE "data"

VARIABLES
    batching,               \* TRUE: the object is a BatchingBolt; FALSE: a Bolt
    auto_anchor,            \* class attribute auto_anchor
    auto_ack,               \* class attribute auto_ack
    auto_fail,              \* class attribute auto_fail
    ticks_between_batches,  \* class attribute ticks_between_batches
    status,                 \* "handshake", "running" or "exited" (sys.exit(1))
    current_tups,           \* self._current_tups: a sequence of Tuples
    batches,                \* self._batches: a function from the keys present to sequences
    tick_counter,           \* self._tick_counter
    trace,                  \* what the last step did: hook calls and messages sent, in order
    acks,                   \* history: ack commands sent so far, per item id
    fails,                  \* history: fail commands sent so far, per item id
    batched,                \* history: process_batch invocations so far, per item id
    arrived,                \* history: data items read so far
    ticks,                  \* history: tick messages read so far
    idle_over,              \* history: ticks since the last reset that found no batch to save
    late,                   \* history: a data item was read after a tick
    waited,                 \* history: ticks dispatched since the oldest buffered item arrived
    threads,                \* SpecEmit: per thread, its position in emit / emit_many
    reader_lock,            \* SpecEmit: owner of self._reader_lock (0: free)
    writer_lock,            \* SpecEmit: owner of self._writer_lock (0: free)
    wire,                   \* SpecEmit: emit envelopes sent and not yet seen by the orchestrator
    responses,              \* SpecEmit: task-id responses delivered and not yet read
    calls                   \* SpecEmit: history: emit / emit_many calls started so far

config == <<batching, auto_anchor, auto_ack, auto_fail, ticks_between_batches>>
loopvars == <<status, current_tups, batches, tick_counter, trace, acks, fails,
              batched, arrived, ticks, idle_over, late, waited>>
emitvars == <<threads, reader_lock, writer_lock, wire, responses, calls>>
vars == <<config, loopvars, emitvars>>

\* ---------------------------------------------------------------- helpers
\* An optional argument: <<>> is an omitted / None argument, <<x>> is x given.
Omitted == <<>>
Given(x) == <<x>>

AllIds == 1..(MaxItems + 2)

EmptyBatches == [k \in {} |-> <<>>]

\* The permutations of a set of keys: the orders a dict may iterate in.
Orders(S) == {o \in [1..Cardinality(S) -> S] : \A a, b \in 1..Cardinality(S) : o[a] = o[b] => a = b}

IsAckOf(e, i) == e.command = "ack" /\ e.id = i
IsFailOf(e, i) == e.command = "fail" /\ e.id = i
IsBatchOf(e, i) == e.command = "process_batch" /\ \E k \in 1..Len(e.tups) : e.tups[k].id = i
IsSent(e) == e.command \in {"emit", "ack", "fail", "sync"}

\* ------------------------------------------------------- emit / ack / fail
\* An anchor argument is a raw id or a Tuple; emit serializes either as an id.
RawAnchor(i) == [isTuple |-> FALSE, id |-> i]
TupleAnchor(t) == [isTuple |-> TRUE, tup |-> t]
AnchorId(a) == IF a.isTuple THEN a.tup.id ELSE a.id

DefaultAnchorsAlways(cur) == [k \in 1..Len(cur) |-> TupleAnchor(cur[k])]

\* The anchors emit uses when the caller gave none.
DefaultAnchors(cur) ==
    IF auto_anchor THEN [k \in 1..Len(cur) |-> TupleAnchor(cur[k])] ELSE <<>>

\* The envelope Bolt.emit builds. An optional field that is absent is Omitted.
EmitMsg(tup, stream, anchors, direct_task, need_task_ids, cur) ==
    LET a == IF anchors = Omitted THEN DefaultAnchors(cur) ELSE anchors[1]
    IN [command |-> "emit",
        tuple |-> tup,
        anchors |-> [k \in 1..Len(a) |-> AnchorId(a[k])],
        stream |-> stream,
        task |-> direct_task,
        need_task_ids |-> IF need_task_ids = "False" THEN Given(FALSE) ELSE Omitted]

EmitReadsWhenNeeded(direct_task, need_task_ids) ==
    need_task_ids = "True"

\* Whether Bolt.emit calls read_task_ids after sending.
EmitReads(direct_task, need_task_ids) ==
    need_task_ids = "True" /\ direct_task = Omitted

\* What Bolt.emit returns: Omitted is None, Given(l) is the list l.
EmitResult(direct_task, need_task_ids, response) ==
    IF need_task_ids = "True"
    THEN Given(IF direct_task # Omitted THEN <<direct_task[1]>> ELSE response)
    ELSE Omitted

\* need_task_ids as Bolt.emit / BatchingBolt.emit receives it: "" is not passed.
EmitNeed(need_task_ids) ==
    IF batching THEN "False"
    ELSE IF need_task_ids = "" THEN "True" ELSE need_task_ids

\* need_task_ids as emit_many hands it to emit.
EmitManyNeed(need_task_ids) ==
    IF batching THEN "False"
    ELSE IF need_task_ids = "" THEN None ELSE need_task_ids

Ack(tup) == [command |-> "ack", id |-> tup.id]
Fail(tup) == [command |-> "fail", id |-> tup.id]

\* The events of one self.emit(payload) made by a hook on the main thread,
\* all arguments but the payload left to their defaults.
HookEmit(cur) ==
    <<EmitMsg(<<"payload">>, Omitted, Omitted, Omitted, EmitNeed(""), cur)>>
    \o (IF EmitReads(Omitted, EmitNeed("")) THEN <<[command |-> "read_task_ids"]>> ELSE <<>>)

\* An anchors argument a hook passes to emit: a raw id and a Tuple.
ExplicitAnchors == <<RawAnchor(1), TupleAnchor(DataTuple(2))>>

\* The events of one self.emit(payload, anchors=ExplicitAnchors) made by a
\* hook on the main thread.
HookEmitAnchored(cur) ==
    <<EmitMsg(<<"anchored">>, Omitted, Given(ExplicitAnchors), Omitted, EmitNeed(""), cur)>>
    \o (IF EmitReads(Omitted, EmitNeed("")) THEN <<[command |-> "read_task_ids"]>> ELSE <<>>)

\* What a user hook does when called: return, raise, or emit once (with
\* default or with explicit anchors) and return.
HookBehaviours == {"return", "raise", "emit", "anchored"}

HookEvents(h, cur) ==
    IF h = "raise" THEN <<[command |-> "raise"]>>
    ELSE (IF h = "emit" THEN HookEmit(cur)
          ELSE IF h = "anchored" THEN HookEmitAnchored(cur)
          ELSE <<>>) \o <<[command |-> "return"]>>

\* ------------------------------------------------------ failure mapping
BoltHandleAlwaysFails(cur) ==
    (IF Len(cur) = 1
     THEN <<[command |-> "raise_exception", tups |-> cur], Fail(cur[1])>>
     ELSE <<>>)
    \o <<[command |-> "exit", code |-> 1]>>

\* Bolt._handle_run_exception.
BoltHandleRunException(cur) ==
    (IF Len(cur) = 1
     THEN <<[command |-> "raise_exception", tups |-> cur]>>
          \o (IF auto_fail THEN <<Fail(cur[1])>> ELSE <<>>)
     ELSE <<>>)
    \o <<[command |-> "exit", code |-> 1]>>

\* The fail commands for every tuple of every batch of b, the batches taken
\* in the given order.
FailAll(b, order) ==
    LET f[j \in 0..Len(order)] ==
            IF j = 0 THEN <<>>
            ELSE f[j - 1] \o [k \in 1..Len(b[order[j]]) |-> Fail(b[order[j]][k])]
    IN f[Len(order)]

\* BatchingBolt._handle_run_exception.
BatchingHandleRunException(cur, b, order) ==
    <<[command |-> "raise_exception", tups |-> cur]>>
    \o (IF auto_fail THEN FailAll(b, order) ELSE <<>>)
    \o <<[command |-> "exit", code |-> 1]>>

HandleRunException(cur, b, order) ==
    IF batching THEN BatchingHandleRunException(cur, b, order)
    ELSE BoltHandleRunException(cur)

\* ------------------------------------------------------------ histories
\* A step of the main loop that produced trace tr.
Record(tr) ==
    /\ trace' = tr
    /\ acks' = [i \in AllIds |-> acks[i] + Cardinality({k \in 1..Len(tr) : IsAckOf(tr[k], i)})]
    /\ fails' = [i \in AllIds |-> fails[i] + Cardinality({k \in 1..Len(tr) : IsFailOf(tr[k], i)})]
    /\ batched' = [i \in AllIds |-> batched[i] + Cardinality({k \in 1..Len(tr) : IsBatchOf(tr[k], i)})]

\* ------------------------------------------------------- the batching layer
FlushDueAtThreshold(c) == c >= ticks_between_batches

FlushDueOneLater(c) == c > ticks_between_batches + 1

\* BatchingBolt.process_tick: enough ticks have been received.
FlushDue(c) == c > ticks_between_batches

NeverSkipped(b) == FALSE

\* BatchingBolt.process_tick: "if not self._batches".
NoTuplesToSave(b) == DOMAIN b = {}

IdleCounterReset(c) == 0

\* BatchingBolt.process_tick: the counter left behind by "return # no tuples
\* to save", c being the incremented counter.
IdleCounter(c) == c

AfterFlushKeepsKeys(b) == [k \in DOMAIN b |-> <<>>]

\* BatchingBolt.process_tick: self._batches after the loop over the groups.
AfterFlush(b) == EmptyBatches

CounterAfterFlushKept(c) == c

\* BatchingBolt.process_tick: self._tick_counter after the loop over the
\* groups, c being the incremented counter.
CounterAfterFlush(c) == 0

\* BatchingBolt.process: the batches after tup is appended to its group.
Appended(b, key, tup) ==
    [k \in DOMAIN b \cup {key} |-> IF k = key
                                   THEN (IF k \in DOMAIN b THEN b[k] ELSE <<>>) \o <<tup>>
                                   ELSE b[k]]

\* The acks process_tick sends after process_batch returned for a batch.
BatchAcks(batch) ==
    IF auto_ack THEN [k \in 1..Len(batch) |-> Ack(batch[k])] ELSE <<>>

\* The events of the flush loop for the group at position j of the order;
\* process_batch behaves as h, and raises when j = failAt.
GroupEvents(b, order, j, failAt, h) ==
    <<[command |-> "process_batch", key |-> order[j], tups |-> b[order[j]]]>>
    \o (IF j = failAt
        THEN HookEvents("raise", b[order[j]])
        ELSE HookEvents(h, b[order[j]]) \o BatchAcks(b[order[j]]))

\* The events of the flush loop up to and including position m.
FlushEvents(b, order, m, failAt, h) ==
    LET f[j \in 0..m] ==
            IF j = 0 THEN <<>> ELSE f[j - 1] \o GroupEvents(b, order, j, failAt, h)
    IN f[m]

ClearedNothing(b, order, j) == b

\* self._batches when process_batch raises at position j: the groups before j
\* were set to [] one by one.
ClearedBefore(b, order, j) ==
    [k \in DOMAIN b |-> IF \E a \in 1..(j - 1) : order[a] = k THEN <<>> ELSE b[k]]

\* The ticks the oldest buffered item has sat through, b being the buffers
\* a tick dispatch leaves behind: one more when an item is still buffered,
\* none when the buffers are empty. Every buffered item has sat through at
\* most as many ticks as the oldest one.
Aged(w, b) ==
    IF \E k \in DOMAIN b : b[k] # <<>> THEN w + 1 ELSE 0

\* ------------------------------------------------------------ the main loop
AutoAckAlways(tup) == <<Ack(tup)>>

\* Bolt._run: the ack after self.process(tup) returned.
AutoAck(tup) == IF auto_ack THEN <<Ack(tup)>> ELSE <<>>

\* The messages read_tuple may return next.
Inbound ==
    (IF arrived < MaxItems THEN {DataTuple(arrived + 1)} ELSE {})
    \cup (IF ticks < MaxTicks THEN {TickTuple} ELSE {})
    \cup {HeartbeatTuple}

ReadEvent(tup) == [command |-> "read_tuple", tup |-> tup]

InFlightDataOnly(tup) == IF Classify(tup) = "data" THEN <<tup>> ELSE <<>>

\* Bolt._run: self._current_tups once the message tup is read, whatever its
\* kind.
InFlight(tup) == <<tup>>

\* The state sys.exit(1) leaves behind, after the steps in tr.
Exit(tr, cur, b, c) ==
    /\ status' = "exited"
    /\ current_tups' = cur
    /\ batches' = b
    /\ tick_counter' = c
    /\ Record(tr)

AfterRunKept(tr) ==
    IF tr[1].command = "read_tuple" THEN <<tr[1].tup>> ELSE <<>>

\* Bolt._run: self._current_tups as the last statement of _run leaves it,
\* after the steps in tr.
AfterRun(tr) == <<>>

\* _run returned: the next iteration of the loop follows.
Continue(tr, b, c) ==
    /\ status' = "running"
    /\ current_tups' = AfterRun(tr)
    /\ batches' = b
    /\ tick_counter' = c
    /\ Record(tr)

\* Bolt.run: the handshake, then initialize, which may raise.
Initialize ==
    /\ status = "handshake"
    /\ \E ok \in BOOLEAN, order \in Orders(DOMAIN batches) :
         IF ok
         THEN Continue(<<[command |-> "initialize"], [command |-> "return"]>>,
                       batches, tick_counter)
         ELSE Exit(<<[command |-> "initialize"], [command |-> "raise"]>>
                   \o HandleRunException(current_tups, batches, order),
                   current_tups, batches, tick_counter)
    /\ UNCHANGED <<config, arrived, ticks, idle_over, late, waited, emitvars>>

\* Bolt._run: read_tuple itself raises.
ReadError ==
    /\ status = "running"
    /\ \E order \in Orders(DOMAIN batches) :
         Exit(<<[command |-> "read_tuple_raise"]>>
              \o HandleRunException(current_tups, batches, order),
              current_tups, batches, tick_counter)
    /\ UNCHANGED <<config, arrived, ticks, idle_over, late, waited, emitvars>>

\* Bolt._run on a heartbeat.
Heartbeat ==
    /\ status = "running"
    /\ \E tup \in Inbound :
         /\ Classify(tup) = "heartbeat"
         /\ Continue(<<ReadEvent(tup), [command |-> "sync"]>>, batches, tick_counter)
    /\ UNCHANGED <<config, arrived, ticks, idle_over, late, waited, emitvars>>

\* Bolt._run on a data tuple, the object being a Bolt: the process hook
\* behaves as h.
DataBolt ==
    /\ status = "running"
    /\ ~batching
    /\ \E tup \in Inbound, h \in HookBehaviours :
         /\ Classify(tup) = "data"
         /\ LET cur == InFlight(tup)
                tr == <<ReadEvent(tup), [command |-> "process", tup |-> tup]>>
                      \o HookEvents(h, cur)
            IN IF h = "raise"
               THEN Exit(tr \o HandleRunException(cur, batches, <<>>),
                         cur, batches, tick_counter)
               ELSE Continue(tr \o AutoAck(tup), batches, tick_counter)
         /\ arrived' = arrived + 1
         /\ late' = (late \/ ticks > 0)
    /\ UNCHANGED <<config, ticks, idle_over, waited, emitvars>>

\* Bolt._run on a data tuple, the object being a BatchingBolt: process is
\* BatchingBolt.process, group_key returns key or raises.
DataBatching ==
    /\ status = "running"
    /\ batching
    /\ \E tup \in Inbound, key \in Keys, h \in {"return", "raise"},
          order \in Orders(DOMAIN batches) :
         /\ Classify(tup) = "data"
         /\ LET cur == InFlight(tup)
                tr == <<ReadEvent(tup), [command |-> "group_key", tup |-> tup]>>
                      \o HookEvents(h, cur)
            IN IF h = "raise"
               THEN Exit(tr \o HandleRunException(cur, batches, order),
                         cur, batches, tick_counter)
               ELSE Continue(tr \o AutoAck(tup), Appended(batches, key, tup),
                             tick_counter)
         /\ arrived' = arrived + 1
         /\ late' = (late \/ ticks > 0)
    /\ UNCHANGED <<config, ticks, idle_over, waited, emitvars>>

\* Bolt._run on a tick, the object being a Bolt: the process_tick hook
\* behaves as h.
TickBolt ==
    /\ status = "running"
    /\ ~batching
    /\ \E tup \in Inbound, h \in HookBehaviours :
         /\ Classify(tup) = "tick"
         /\ LET cur == InFlight(tup)
                tr == <<ReadEvent(tup), [command |-> "process_tick"]>>
                      \o HookEvents(h, cur)
            IN IF h = "raise"
               THEN Exit(tr \o HandleRunException(cur, batches, <<>>),
                         cur, batches, tick_counter)
               ELSE Continue(tr, batches, tick_counter)
    /\ ticks' = ticks + 1
    /\ UNCHANGED <<config, arrived, idle_over, late, waited, emitvars>>

\* Bolt._run on a tick, the object being a BatchingBolt:
\* BatchingBolt.process_tick. The dict iterates in order; process_batch
\* behaves as h, and raises for the group at position failAt (0: for none).
TickBatching ==
    /\ status = "running"
    /\ batching
    /\ \E tup \in Inbound, order \in Orders(DOMAIN batches),
          failAt \in 0..Cardinality(DOMAIN batches),
          h \in HookBehaviours \ {"raise"} :
         /\ Classify(tup) = "tick"
         /\ LET c == tick_counter + 1
                tr == <<ReadEvent(tup), [command |-> "process_tick"]>>
            IN IF ~FlushDue(c)
               THEN /\ failAt = 0 /\ h = "return"
                    /\ Continue(tr, batches, c)
                    /\ idle_over' = idle_over
               ELSE IF NoTuplesToSave(batches)
               THEN /\ failAt = 0 /\ h = "return"
                    /\ Continue(tr, batches, IdleCounter(c))
                    /\ idle_over' = idle_over + 1
               ELSE IF failAt = 0
               THEN /\ Continue(tr \o FlushEvents(batches, order, Len(order), 0, h),
                                AfterFlush(batches), CounterAfterFlush(c))
                    /\ idle_over' = 0
               ELSE /\ Exit(tr \o FlushEvents(batches, order, failAt, failAt, h)
                            \o HandleRunException(batches[order[failAt]],
                                                  ClearedBefore(batches, order, failAt),
                                                  order),
                            batches[order[failAt]],
                            ClearedBefore(batches, order, failAt), c)
                    /\ idle_over' = idle_over
    /\ ticks' = ticks + 1
    /\ waited' = Aged(waited, batches')
    /\ UNCHANGED <<config, arrived, late, emitvars>>

\* --------------------------------------------------------- concurrent emits
Threads == 1..NumThreads

\* sent and got are what the emit in progress has sent and read so far.
Idle == [pc |-> "idle", kind |-> "", need |-> "", direct |-> Omitted, left |-> 0,
         n |-> 0, result |-> Omitted, results |-> <<>>, sent |-> 0, got |-> <<>>]

EmitEntryUnlocked == "send"

\* Where a thread entering Bolt.emit starts: the with statement takes the
\* reader lock, then the writer lock, before send_message.
EmitEntry == "reader"

\* The payload of the envelope thread t is about to send: unique per emit.
Payload(t) == <<t, threads[t].n, threads[t].left>>

\* The wire contract: an emit envelope is answered with task ids unless it
\* names a task or carries need_task_ids false.
Solicits(m) == m.task = Omitted /\ m.need_task_ids = Omitted

\* The task ids the orchestrator answers envelope m with; the list stands for
\* the message it answers.
TaskIds(m) == m.tuple

\* A thread's state as it enters its call number n, for k tuples.
Entered(kind, need, direct, k, n) ==
    [pc |-> EmitEntry, kind |-> kind, need |-> need, direct |-> direct, left |-> k,
     n |-> n, result |-> Omitted, results |-> <<>>, sent |-> 0, got |-> <<>>]

\* A thread calls emit(payload, direct_task=, need_task_ids=); "" is an
\* argument left to its default.
CallEmit(t) ==
    /\ threads[t].pc = "idle"
    /\ calls < MaxCalls
    /\ \E need \in {"", "True", "False"}, direct \in {Omitted, Given(7)} :
         threads' = [threads EXCEPT ![t] =
                        Entered("emit", EmitNeed(need), direct, 1, calls + 1)]
    /\ calls' = calls + 1
    /\ UNCHANGED <<config, loopvars, reader_lock, writer_lock, wire, responses>>

\* A thread calls emit_many(k payloads, direct_task=, need_task_ids=), which
\* calls emit for each payload in turn.
CallEmitMany(t) ==
    /\ threads[t].pc = "idle"
    /\ calls < MaxCalls
    /\ \E need \in {"", "True", "False"}, direct \in {Omitted, Given(7)},
          k \in 1..MaxTuples :
         threads' = [threads EXCEPT ![t] =
                        Entered("emit_many", EmitManyNeed(need), direct, k, calls + 1)]
    /\ calls' = calls + 1
    /\ UNCHANGED <<config, loopvars, reader_lock, writer_lock, wire, responses>>

\* with self._reader_lock, ...
AcquireReader(t) ==
    /\ threads[t].pc = "reader"
    /\ reader_lock = 0
    /\ reader_lock' = t
    /\ threads' = [threads EXCEPT ![t].pc = "writer"]
    /\ UNCHANGED <<config, loopvars, writer_lock, wire, responses, calls>>

\* ... self._writer_lock:
AcquireWriter(t) ==
    /\ threads[t].pc = "writer"
    /\ writer_lock = 0
    /\ writer_lock' = t
    /\ threads' = [threads EXCEPT ![t].pc = "send"]
    /\ UNCHANGED <<config, loopvars, reader_lock, wire, responses, calls>>

\* self.send_message(msg), then the branch on need_task_ids and direct_task.
Send(t) ==
    /\ threads[t].pc = "send"
    /\ LET th == threads[t]
           msg == EmitMsg(Payload(t), Omitted, Omitted, th.direct, th.need, current_tups)
       IN /\ wire' = Append(wire, msg)
          /\ threads' = [threads EXCEPT ![t] =
                 IF EmitReads(th.direct, th.need)
                 THEN [th EXCEPT !.pc = "read", !.sent = th.sent + 1]
                 ELSE [th EXCEPT !.pc = "release", !.sent = th.sent + 1,
                                 !.result = EmitResult(th.direct, th.need, <<>>)]]
    /\ UNCHANGED <<config, loopvars, reader_lock, writer_lock, responses, calls>>

\* self.read_task_ids(): blocks until a response is there, and consumes it.
ReadTaskIds(t) ==
    /\ threads[t].pc = "read"
    /\ responses # <<>>
    /\ LET th == threads[t]
       IN threads' = [threads EXCEPT ![t] =
              [th EXCEPT !.pc = "release",
                         !.got = Append(th.got, Head(responses)),
                         !.result = EmitResult(th.direct, th.need, Head(responses))]]
    /\ responses' = Tail(responses)
    /\ UNCHANGED <<config, loopvars, reader_lock, writer_lock, wire, calls>>

ReleasedNever(lock, t) == lock

\* A lock after thread t left the with statement that took it.
Released(lock, t) == IF lock = t THEN 0 ELSE lock

\* The with statement is left: both locks are released and emit returns;
\* emit_many appends the result and emits its next tuple, or returns.
Release(t) ==
    /\ threads[t].pc = "release"
    /\ reader_lock' = Released(reader_lock, t)
    /\ writer_lock' = Released(writer_lock, t)
    /\ LET th == threads[t]
       IN threads' = [threads EXCEPT ![t] =
              IF th.left > 1
              THEN [th EXCEPT !.pc = EmitEntry, !.left = th.left - 1,
                              !.results = Append(th.results, th.result),
                              !.result = Omitted, !.sent = 0, !.got = <<>>]
              ELSE [th EXCEPT !.pc = "return", !.left = 0,
                              !.results = Append(th.results, th.result)]]
    /\ UNCHANGED <<config, loopvars, wire, responses, calls>>

\* The call has returned to its caller.
Return(t) ==
    /\ threads[t].pc = "return"
    /\ threads' = [threads EXCEPT ![t] = Idle]
    /\ UNCHANGED <<config, loopvars, reader_lock, writer_lock, wire, responses, calls>>

\* The orchestrator takes the next envelope off the wire and answers it if
\* the envelope solicits an answer.
Respond ==
    /\ wire # <<>>
    /\ responses' = IF Solicits(Head(wire))
                    THEN Append(responses, TaskIds(Head(wire)))
                    ELSE responses
    /\ wire' = Tail(wire)
    /\ UNCHANGED <<config, loopvars, threads, reader_lock, writer_lock, calls>>

\* --------------------------------------------------------- specifications
InitEmitVars ==
    /\ threads = [t \in Threads |-> Idle]
    /\ reader_lock = 0
    /\ writer_lock = 0
    /\ wire = <<>>
    /\ responses = <<>>
    /\ calls = 0

InitLoopVars ==
    /\ current_tups = <<>>
    /\ batches = EmptyBatches
    /\ tick_counter = 0
    /\ trace = <<>>
    /\ acks = [i \in AllIds |-> 0]
    /\ fails = [i \in AllIds |-> 0]
    /\ batched = [i \in AllIds |-> 0]
    /\ arrived = 0
    /\ ticks = 0
    /\ idle_over = 0
    /\ late = FALSE
    /\ waited = 0

\* A bolt of either class, its class attributes set by the subclass, before
\* run() is called.
Init ==
    /\ batching \in BOOLEAN
    /\ auto_anchor \in BOOLEAN
    /\ auto_ack \in BOOLEAN
    /\ auto_fail \in BOOLEAN
    /\ ticks_between_batches \in 0..MaxThreshold
    /\ status = "handshake"
    /\ InitLoopVars
    /\ InitEmitVars

Next ==
    \/ Initialize
    \/ ReadError
    \/ Heartbeat
    \/ DataBolt
    \/ DataBatching
    \/ TickBolt
    \/ TickBatching

Spec == Init /\ [][Next]_vars

\* A running bolt of either class, between two messages, whose hooks have
\* started threads that emit.
InitEmit ==
    /\ batching \in BOOLEAN
    /\ auto_anchor = TRUE
    /\ auto_ack = TRUE
    /\ auto_fail = TRUE
    /\ ticks_between_batches = 1
    /\ status = "running"
    /\ InitLoopVars
    /\ InitEmitVars

NextEmit ==
    \/ \E t \in Threads : CallEmit(t)
    \/ \E t \in Threads : AcquireReader(t)
    \/ \E t \in Threads : AcquireWriter(t)
    \/ \E t \in Threads : Send(t)
    \/ \E t \in Threads : ReadTaskIds(t)
    \/ \E t \in Threads : Release(t)
    \/ \E t \in Threads : Return(t)
    \/ Respond

SpecEmit == InitEmit /\ [][NextEmit]_vars

\* The steps of thread t inside emit, from the with statement to the return.
EmitStep(t) ==
    \/ AcquireReader(t) \/ AcquireWriter(t)
    \/ Send(t) \/ ReadTaskIds(t) \/ Release(t) \/ Return(t)

\* Scheduling: a thread that can go on (the lock it waits for stays free,
\* the response it waits for is there) does go on, and the orchestrator
\* keeps taking envelopes off the wire.
FairEmit ==
    /\ \A t \in Threads : WF_vars(EmitStep(t))
    /\ WF_vars(Respond)

SpecEmitFair == SpecEmit /\ FairEmit

NextMany ==
    \/ \E t \in Threads : CallEmitMany(t)
    \/ NextEmit

SpecMany == InitEmit /\ [][NextMany]_vars

\* ------------------------------------------------------------------ claims
\* Readings of the trace of the last step.
Positions(tr, cmd) == {p \in 1..Len(tr) : tr[p].command = cmd}
AcksIn(tr, i) == {p \in 1..Len(tr) : IsAckOf(tr[p], i)}
FailsIn(tr, i) == {p \in 1..Len(tr) : IsFailOf(tr[p], i)}
BatchesIn(tr, i) == {p \in 1..Len(tr) : IsBatchOf(tr[p], i)}
Flushed(tr) == Positions(tr, "process_batch") # {}
LastRead(kind) ==
    /\ Len(trace) >= 1
    /\ trace[1].command = "read_tuple"
    /\ Classify(trace[1].tup) = kind

\* Item i sits in a group buffer.
InBatches(i) ==
    \E k \in DOMAIN batches : \E j \in 1..Len(batches[k]) : batches[k][j].id = i

\* Item i was appended to a group buffer at some time.
Buffered(i) == InBatches(i) \/ batched[i] > 0

\* C1: in the batching layer with auto-ack and auto-fail enabled, every
\* buffered item gets at most one ack-or-fail command in total, and has got
\* exactly one once its flush has completed or the process has terminated.
C1_ExactlyOnce ==
    (batching /\ auto_ack /\ auto_fail /\ Positions(trace, "read_tuple_raise") = {}) =>
        \A i \in ItemIds :
            /\ acks[i] + fails[i] <= 1
            /\ (Buffered(i) /\ (status = "exited" \/ ~InBatches(i)))
                   => acks[i] + fails[i] = 1

\* C2: in the batching layer the dispatch of a data item sends no ack, and
\* the first ack of an item is sent in a flush, after a process_batch call
\* on a batch holding the item has returned.
C2_AckOnlyAfterBatch ==
    batching =>
        /\ LastRead("data") => Positions(trace, "ack") = {}
        /\ \A i \in ItemIds : \A p \in AcksIn(trace, i) :
               (acks[i] = Cardinality(AcksIn(trace, i)) /\ \A q \in AcksIn(trace, i) : p <= q)
                   => /\ LastRead("tick")
                      /\ \E q \in BatchesIn(trace, i) : \E r \in Positions(trace, "return") :
                             q < r /\ r < p

\* The three items of the scenario, in their order of arrival.
ThreeItems == <<DataTuple(1), DataTuple(2), DataTuple(3)>>

\* The scenario of C3 after its k-th tick: a batching bolt with
\* ticks_between_batches = 2 and auto-ack, three items that arrived before
\* the first tick, and the last step the dispatch of the k-th tick, no hook
\* having raised.
Scenario(k) ==
    /\ batching /\ auto_ack /\ ticks_between_batches = 2
    /\ arrived = 3 /\ ~late /\ ticks = k
    /\ status = "running" /\ LastRead("tick")
    /\ \A i \in 1..3 : batched[i] = 0 => InBatches(i)
    /\ \A key \in DOMAIN batches : key = None
    /\ \A p \in Positions(trace, "process_batch") : trace[p].key = None

\* The tick just dispatched flushed nothing.
NoFlush ==
    /\ ~Flushed(trace)
    /\ Positions(trace, "ack") = {}
    /\ batches = [key \in {None} |-> ThreeItems]
    /\ tick_counter = ticks

\* The tick just dispatched flushed the three items: one process_batch call,
\* on (None, [t1, t2, t3]), then one ack for each, and the counter is 0.
OneFlush ==
    /\ Cardinality(Positions(trace, "process_batch")) = 1
    /\ \A p \in Positions(trace, "process_batch") :
           /\ trace[p].key = None /\ trace[p].tups = ThreeItems
           /\ \A i \in 1..3 : /\ Cardinality(AcksIn(trace, i)) = 1
                              /\ \A q \in AcksIn(trace, i) : p < q
    /\ tick_counter = 0

\* C3 as claimed: the first tick flushes nothing and the second tick flushes.
C3_FlushOnSecondTick ==
    /\ Scenario(1) => NoFlush
    /\ Scenario(2) => OneFlush

\* C3 as amended: with ticks_between_batches = 2 the first and the second
\* tick flush nothing (the counter, 1 and then 2, does not exceed 2); the
\* third tick flushes: process_batch(None, [t1, t2, t3]) is invoked exactly
\* once, then t1, t2, t3 are each acked, and the counter is reset to 0.
C3_FlushOnThirdTick ==
    /\ Scenario(1) => NoFlush
    /\ Scenario(2) => NoFlush
    /\ Scenario(3) => OneFlush

C3_Witness == Scenario(3) /\ OneFlush /\ batches = EmptyBatches

\* A step that dispatches a tick in the batching layer, and one that flushes.
TickStep == batching /\ ticks' = ticks + 1
FlushStep == TickStep /\ Flushed(trace')

\* C4: a tick dispatch of the batching layer executes a flush if and only
\* if the counter, after the tick's increment, is greater than
\* ticks_between_batches and at least one group is non-empty.
C4_FlushIff ==
    [][TickStep =>
          (Flushed(trace') <=>
              /\ tick_counter + 1 > ticks_between_batches
              /\ \E k \in DOMAIN batches : batches[k] # <<>>)]_vars

C4_Witness ==
    /\ batching /\ LastRead("tick") /\ Flushed(trace)
    /\ ticks_between_batches >= 1 /\ status = "running"

\* C5 as claimed: every flush executes with the counter equal to
\* ticks_between_batches + 1.
C5_FlushAtFirstExcess ==
    [][FlushStep => tick_counter + 1 = ticks_between_batches + 1]_vars

\* C5 as amended: every flush executes with the counter greater than
\* ticks_between_batches, namely equal to ticks_between_batches + 1 plus the
\* number of ticks that, since the last reset, found the counter above the
\* threshold and all groups empty (such a tick increments the counter and
\* does not reset it).
C5_FlushAtExcessPlusIdle ==
    [][FlushStep =>
          /\ tick_counter + 1 > ticks_between_batches
          /\ tick_counter + 1 = ticks_between_batches + 1 + idle_over]_vars

\* The first flush of a run, on a tick later than the (threshold + 1)-th.
C5_Witness ==
    /\ batching /\ LastRead("tick") /\ Flushed(trace) /\ status = "running"
    /\ \A i \in ItemIds : batched[i] = Cardinality(BatchesIn(trace, i))
    /\ ticks > ticks_between_batches + 1

\* C6: right after a flush that completed without a hook error the tick
\* counter is 0 and every group buffer is empty; no item is ever passed to
\* process_batch twice.
C6_AfterFlush ==
    batching =>
        /\ (LastRead("tick") /\ Flushed(trace) /\ status = "running")
               => /\ tick_counter = 0
                  /\ \A k \in DOMAIN batches : batches[k] = <<>>
                  /\ \A i \in ItemIds : ~InBatches(i)
        /\ \A i \in ItemIds : batched[i] <= 1

C6_Witness ==
    /\ batching /\ LastRead("tick") /\ Flushed(trace) /\ status = "running"
    /\ tick_counter = 0 /\ ticks_between_batches >= 1
    /\ \E i \in ItemIds : batched[i] = 1

\* The process_batch call of the last step that raised: the last one made.
RaisedAt == CHOOSE p \in Positions(trace, "process_batch") :
                \A q \in Positions(trace, "process_batch") : q <= p

\* A tick dispatch whose flush ended in process_batch raising, auto-fail on.
FailedFlush ==
    /\ batching /\ auto_fail /\ status = "exited"
    /\ LastRead("tick") /\ Flushed(trace)

\* C7: when process_batch raises for group g during a flush with auto-fail,
\* a fail is sent for every item of g and of every group not yet processed,
\* and none for an item of a group processed earlier in the pass.
C7_FailOnlyPending ==
    FailedFlush =>
        \A i \in ItemIds :
            /\ (IsBatchOf(trace[RaisedAt], i) \/ (i <= arrived /\ batched[i] = 0))
                   => FailsIn(trace, i) # {}
            /\ (\E q \in BatchesIn(trace, i) : q < RaisedAt)
                   => FailsIn(trace, i) = {}

\* A failed flush with a group processed before g, g, and a group after g.
C7_Witness ==
    /\ FailedFlush
    /\ \E i, j, k \in ItemIds :
          /\ \E q \in BatchesIn(trace, i) : q < RaisedAt
          /\ IsBatchOf(trace[RaisedAt], j)
          /\ k <= arrived /\ batched[k] = 0
          /\ FailsIn(trace, i) = {} /\ FailsIn(trace, j) # {} /\ FailsIn(trace, k) # {}

\* C10: in the base runtime the dispatch of a data item whose process hook
\* returns sends exactly one ack, with the item's id, when auto_ack is on,
\* no ack when it is off, and no fail.
C10_AckAfterProcess ==
    (~batching /\ LastRead("data") /\ Positions(trace, "return") # {}) =>
        /\ Cardinality(Positions(trace, "ack")) = (IF auto_ack THEN 1 ELSE 0)
        /\ \A p \in Positions(trace, "ack") : trace[p].id = trace[1].tup.id
        /\ Positions(trace, "fail") = {}

C10_Witness ==
    /\ ~batching /\ LastRead("data") /\ Positions(trace, "return") # {}
    /\ auto_ack /\ AcksIn(trace, trace[1].tup.id) # {}

\* The envelope of the emit thread t is in.
OwnMsg(t) ==
    EmitMsg(Payload(t), Omitted, Omitted, threads[t].direct, threads[t].need, current_tups)

\* C8: while a thread is between its send_message and its read_task_ids no
\* other emit's envelope has been sent after its own, and the response an
\* emit with need_task_ids true and no direct_task returns is the one the
\* orchestrator produced for that emit's own envelope.
C8_OwnResponse ==
    \A t \in Threads :
        /\ threads[t].pc = "read"
               => (wire = <<>> \/ wire[Len(wire)] = OwnMsg(t))
        /\ (threads[t].pc = "release" /\ EmitReads(threads[t].direct, threads[t].need))
               => threads[t].result = Given(TaskIds(OwnMsg(t)))

\* A thread has read its own response while another, which also wants a
\* response, waits for the reader lock.
C8_Witness ==
    \E t, u \in Threads :
        /\ t # u
        /\ threads[t].pc = "release"
        /\ EmitReads(threads[t].direct, threads[t].need)
        /\ threads[t].result = Given(TaskIds(OwnMsg(t)))
        /\ threads[u].pc = "reader"
        /\ EmitReads(threads[u].direct, threads[u].need)

\* The responses the orchestrator was asked for and the worker has not read.
Unread ==
    Cardinality({p \in 1..Len(wire) : Solicits(wire[p])}) + Len(responses)

\* C9: an emit reads a response if and only if its envelope solicits one;
\* no solicited response is left unread when no emit is in progress; and
\* emit_many with defaults returns a task-id list for every item.
C9_ReadIffSolicited ==
    /\ \A t \in Threads :
           threads[t].pc \in {"read", "release"}
               => (EmitReads(threads[t].direct, threads[t].need) <=> Solicits(OwnMsg(t)))
    /\ (\A t \in Threads : threads[t].pc \in {"idle", "return"}) => Unread = 0
    /\ \A t \in Threads :
           (/\ threads[t].pc = "return" /\ threads[t].kind = "emit_many"
            /\ threads[t].need = None /\ threads[t].direct = Omitted)
               => \A p \in 1..Len(threads[t].results) : threads[t].results[p] # Omitted

\* The last step was a base-runtime data dispatch whose process hook raised.
ProcessRaised ==
    /\ ~batching /\ LastRead("data") /\ Positions(trace, "raise") # {}

\* What the failure path did for the item X in flight: one error report
\* naming X, one fail for X iff auto_fail, no ack for X, then exit status 1.
FailurePathOf(X) ==
    /\ Cardinality(Positions(trace, "raise_exception")) = 1
    /\ \A p \in Positions(trace, "raise_exception") : trace[p].tups = <<X>>
    /\ Cardinality(FailsIn(trace, X.id)) = (IF auto_fail THEN 1 ELSE 0)
    /\ Positions(trace, "fail") = FailsIn(trace, X.id)
    /\ Positions(trace, "ack") = {}
    /\ trace[Len(trace)] = [command |-> "exit", code |-> 1]
    /\ \A p \in Positions(trace, "raise_exception") \cup Positions(trace, "fail") :
           p < Len(trace)
    /\ status = "exited"

\* C11: in the base runtime, when process raises with one data item X in
\* flight, X is reported once, failed once iff auto_fail, never acked, and
\* the process exits with status 1; once exited, no step is taken any more.
C11_FailAndExit ==
    [][/\ status # "exited"
       /\ ProcessRaised' => FailurePathOf(trace[1].tup)']_vars

C11_Witness ==
    /\ ProcessRaised /\ auto_fail /\ status = "exited"
    /\ FailsIn(trace, trace[1].tup.id) # {}

\* Thread t has finished a base-runtime emit (not yet left the with block,
\* or just returned from emit()).
EmitDone(t) ==
    /\ ~batching /\ threads[t].kind = "emit"
    /\ threads[t].pc \in {"release", "return"}

\* C12: a base-runtime emit sends exactly one message; with a direct task T
\* and need_task_ids true it returns [T] and reads no response; with
\* need_task_ids false it returns nothing and reads no response, whatever
\* direct_task is; with need_task_ids true and no direct task it reads
\* exactly one response and returns it.
C12_EmitResult ==
    \A t \in Threads :
        LET th == threads[t]
        IN /\ EmitDone(t) =>
                /\ th.sent = 1
                /\ (th.need = "True" /\ th.direct # Omitted)
                       => (th.result = Given(<<th.direct[1]>>) /\ th.got = <<>>)
                /\ th.need = "False"
                       => (th.result = Omitted /\ th.got = <<>>)
                /\ (th.need = "True" /\ th.direct = Omitted)
                       => (Len(th.got) = 1 /\ th.result = Given(th.got[1]))
           /\ (~batching /\ th.kind = "emit" /\ th.pc = "read")
                => (th.need = "True" /\ th.direct = Omitted /\ th.sent = 1)

\* All three cases have happened side by side: a direct emit that returned
\* [7], and an emit that read its response.
C12_Witness ==
    \E t, u \in Threads :
        /\ EmitDone(t) /\ EmitDone(u)
        /\ threads[t].need = "True" /\ threads[t].direct = Given(7)
        /\ threads[t].result = Given(<<7>>)
        /\ threads[u].need = "True" /\ threads[u].direct = Omitted
        /\ Len(threads[u].got) = 1

\* The in-flight items when the event at position p of the last dispatch
\* was made: the group handed to the latest process_batch before p, or else
\* the message read.
InFlightAt(p) ==
    LET before == {q \in Positions(trace, "process_batch") : q < p}
    IN IF before = {} THEN <<trace[1].tup>>
       ELSE trace[CHOOSE q \in before : \A r \in before : r <= q].tups

IdsOf(tups) == [k \in 1..Len(tups) |-> tups[k].id]

\* C13: the anchors field of every emit envelope is a list of raw ids:
\* explicit anchors appear as their ids whether given as ids or as Tuples;
\* omitted anchors become the ids of the in-flight items (of the group being
\* flushed, during a flush) when auto_anchor is set, and the empty list when
\* it is not.
C13_AnchorsAreIds ==
    \A p \in Positions(trace, "emit") :
        /\ \A k \in 1..Len(trace[p].anchors) : trace[p].anchors[k] \in AllIds
        /\ trace[p].tuple = <<"anchored">> => trace[p].anchors = <<1, 2>>
        /\ trace[p].tuple = <<"payload">> =>
               trace[p].anchors = (IF auto_anchor THEN IdsOf(InFlightAt(p)) ELSE <<>>)

\* A flush whose process_batch emitted with default anchors for a group of
\* two items.
C13_Witness ==
    /\ batching /\ auto_anchor
    /\ \E p \in Positions(trace, "emit") :
           /\ trace[p].tuple = <<"payload">>
           /\ Len(trace[p].anchors) = 2
           /\ trace[p].anchors = IdsOf(trace[p - 1].tups)

\* The step dispatched a heartbeat: a message with task -1 on the stream
\* "__heartbeat" was read.
HeartbeatStep ==
    /\ status = "running"
    /\ trace'[1] = ReadEvent(HeartbeatTuple)

\* C14: in both layers a heartbeat dispatch sends exactly one sync, calls no
\* user hook, sends no ack and no fail, and leaves the group buffers and the
\* tick counter as they were.
C14_HeartbeatSyncOnly ==
    [][HeartbeatStep =>
          /\ trace' = <<ReadEvent(HeartbeatTuple), [command |-> "sync"]>>
          /\ UNCHANGED <<batches, tick_counter>>
          /\ status' = "running"]_vars

\* A heartbeat was dispatched by the batching layer while items were
\* buffered and ticks had been counted.
C14_Witness ==
    /\ batching
    /\ trace = <<ReadEvent(HeartbeatTuple), [command |-> "sync"]>>
    /\ \E k \in DOMAIN batches : batches[k] # <<>>
    /\ tick_counter > 0

\* C15 as claimed: only data items are ever in flight, so in the base
\* runtime a tick dispatch anchors no emit to the tick message and neither
\* reports nor fails it.
C15_OnlyDataInFlight ==
    /\ \A k \in 1..Len(current_tups) : Classify(current_tups[k]) = "data"
    /\ (~batching /\ LastRead("tick")) =>
           /\ \A p \in Positions(trace, "emit") :
                  \A k \in 1..Len(trace[p].anchors) : trace[p].anchors[k] # TickId
           /\ \A p \in Positions(trace, "raise_exception") :
                  trace[p].tups # <<TickTuple>>
           /\ FailsIn(trace, TickId) = {}

\* C15: the message being dispatched is in flight whatever its kind: in the
\* base runtime an emit made by process_tick with omitted anchors is
\* anchored to the tick message iff auto_anchor is set, and an error raised
\* by process_tick reports the tick message once and, iff auto_fail is set,
\* sends one fail for it.
C15_TickInFlight ==
    (~batching /\ LastRead("tick")) =>
        /\ \A p \in Positions(trace, "emit") :
               trace[p].tuple = <<"payload">> =>
                   trace[p].anchors = (IF auto_anchor THEN <<TickId>> ELSE <<>>)
        /\ Positions(trace, "raise") # {} =>
               /\ current_tups = <<TickTuple>>
               /\ Cardinality(Positions(trace, "raise_exception")) = 1
               /\ \A p \in Positions(trace, "raise_exception") :
                      trace[p].tups = <<TickTuple>>
               /\ Cardinality(FailsIn(trace, TickId)) = (IF auto_fail THEN 1 ELSE 0)
               /\ status = "exited"

\* process_tick raised in the base runtime and the tick message was failed.
C15_Witness ==
    /\ ~batching /\ LastRead("tick") /\ auto_fail
    /\ Positions(trace, "raise") # {}
    /\ FailsIn(trace, TickId) # {}

\* C16: when the process has exited on an unhandled error with auto_fail
\* set, a fail was sent for every item in flight at that moment, in both
\* layers, and in the batching layer for every item still buffered too.
C16_FailsInFlight ==
    (status = "exited" /\ auto_fail) =>
        /\ \A k \in 1..Len(current_tups) :
               FailsIn(trace, current_tups[k].id) # {}
        /\ batching =>
               \A key \in DOMAIN batches : \A k \in 1..Len(batches[key]) :
                   FailsIn(trace, batches[key][k].id) # {}

\* The locks thread t holds match its position in emit: none outside the
\* with block, the reader lock alone while it waits for the writer lock,
\* both from send_message until the block is left.
LockDiscipline(t) ==
    /\ writer_lock = t => reader_lock = t
    /\ threads[t].pc \in {"idle", "reader", "return"}
           => (reader_lock # t /\ writer_lock # t)
    /\ threads[t].pc = "writer" => (reader_lock = t /\ writer_lock # t)
    /\ threads[t].pc \in {"send", "read", "release"}
           => (reader_lock = t /\ writer_lock = t)

InEmit(t) == threads[t].pc \in {"reader", "writer", "send", "read", "release"}

ReadRaised ==
    /\ ~batching /\ status = "exited"
    /\ trace[1] = [command |-> "read_tuple_raise"]

\* C18: in the base runtime the in-flight set is empty whenever the loop is
\* about to read the next message, whatever was dispatched before; so when
\* that read raises, nothing is reported and no fail is sent: the item
\* finished last is not failed.
C18_EmptyBeforeRead ==
    /\ (~batching /\ status = "running") => current_tups = <<>>
    /\ ReadRaised =>
           /\ trace = <<[command |-> "read_tuple_raise"], [command |-> "exit", code |-> 1]>>
           /\ \A i \in AllIds : fails[i] = 0

\* The read raised right after a data item had been processed and acked,
\* auto_fail being set.
C18_Witness ==
    /\ ReadRaised /\ auto_fail /\ auto_ack
    /\ arrived >= 1 /\ acks[arrived] = 1

\* The tick being dispatched finds the counter, once incremented, not over
\* the threshold, or finds no non-empty group.
NothingDue ==
    \/ tick_counter + 1 <= ticks_between_batches
    \/ \A key \in DOMAIN batches : batches[key] = <<>>

\* C19: a tick dispatched by the batching layer while the counter does not
\* exceed the threshold, or while no group is non-empty, flushes nothing: no
\* process_batch call, no message sent, every group buffer unchanged; the
\* tick counter alone changes, and grows by one.
C19_IdleTickCountsOnly ==
    [][(TickStep /\ NothingDue) =>
          /\ trace' = <<ReadEvent(TickTuple), [command |-> "process_tick"]>>
          /\ tick_counter' = tick_counter + 1
          /\ UNCHANGED <<batches, current_tups, status, acks, fails, batched>>]_vars

\* A tick under the threshold went by while items were buffered.
C19_Witness ==
    /\ batching /\ LastRead("tick") /\ status = "running"
    /\ Len(trace) = 2
    /\ tick_counter >= 1 /\ tick_counter <= ticks_between_batches
    /\ \E key \in DOMAIN batches : batches[key] # <<>>

\* C20: in the batching layer, as long as no hook has raised, an item that
\* has arrived is either still buffered, and then at most
\* ticks_between_batches ticks have been dispatched since, or it has been
\* handed to process_batch: no item is still buffered after the
\* (ticks_between_batches + 1)-th tick that follows its arrival.
C20_FlushedInTime ==
    (batching /\ status = "running") =>
        \A i \in 1..arrived :
            IF InBatches(i)
            THEN waited <= ticks_between_batches
            ELSE batched[i] >= 1

\* An item was handed to process_batch by the third tick after its arrival,
\* the threshold being 2, having sat through the two ticks before.
C20_Witness ==
    /\ batching /\ status = "running" /\ ticks_between_batches = 2
    /\ ticks = 3 /\ ~late
    /\ Flushed(trace) /\ batched[1] = 1

====
